---- MODULE Spec2Model ----
(***************************************************************************)
(* Model of the PNG decoder core, src/src/decoder/mod.rs: Decoder::read_info, *)
(* Reader::init, next_raw_interlaced_row, next_interlaced_row, next_row,     *)
(* next_frame and the output-shape queries.  The collaborators that live in  *)
(* other modules of the crate (common, filter, utils, stream) are modelled   *)
(* from their documented interface.                                          *)
(***************************************************************************)
EXTENDS Integers, Sequences, FiniteSets, TLC

\* ------------------------------------------------------------------ bounds
MaxWidth == 3
MaxHeight == 3
\* image data may stop up to MaxCut bytes short of the image or carry MaxExtra more
MaxCut == 1
MaxExtra == 2
\* fragments of inflated data hold 1..MaxFrag bytes, or everything at once
MaxFrag == 3
\* next_frame is given a buffer one byte short of the image up to MaxSlack too long
MaxSlack == 0
\* the bytes of the upstream source of the chunk driver
MaxBytes == 5
\* the capacity of the read buffer, 32 KiB in the program
CHUNCK_BUFFER_SIZE == 3

\* ------------------------------------------------------------ small helpers
None == << >>
Some(x) == << x >>
IsSome(o) == o # << >>
Unwrap(o) == o[1]

Min(a, b) == IF a < b THEN a ELSE b
Max(a, b) == IF a > b THEN a ELSE b
CeilDiv(a, b) == (a + b - 1) \div b
Zeros(n) == [i \in 1..n |-> 0]
\* s[a+1 .. b] in 1-based terms: the Rust slice s[a..b]
Slice(s, a, b) == SubSeq(s, a + 1, b)
\* the Rust Vec::resize(n, 0)
Resize(s, n) == [i \in 1..n |-> IF i <= Len(s) THEN s[i] ELSE 0]
\* io::Write for &mut [u8]: copies min(len) bytes to the front of dst
WriteInto(dst, src) == [i \in 1..Len(dst) |-> IF i <= Len(src) THEN src[i] ELSE dst[i]]
Pow2(n) == CASE n = 0 -> 1 [] n = 1 -> 2 [] n = 2 -> 4 [] n = 3 -> 8 [] n = 4 -> 16
             [] n = 5 -> 32 [] n = 6 -> 64 [] n = 7 -> 128 [] n = 8 -> 256
             [] n = 16 -> 65536

\* ------------------------------------------------- common: Info, ColorType
ColorTypes == {"Grayscale", "RGB", "Indexed", "GrayscaleAlpha", "RGBA"}

samples(ct) ==
  CASE ct = "Grayscale" -> 1
    [] ct = "RGB" -> 3
    [] ct = "Indexed" -> 1
    [] ct = "GrayscaleAlpha" -> 2
    [] ct = "RGBA" -> 4

bits_per_pixel(info) == samples(info.color_type) * info.bit_depth

bytes_per_pixel(info) == Max(1, CeilDiv(bits_per_pixel(info), 8))

raw_row_length_from_width(info, width) == CeilDiv(width * bits_per_pixel(info), 8) + 1

raw_row_length(info) == raw_row_length_from_width(info, info.width)

\* ---------------------------------------------------------- Transformations
TRANSFORM_IDENTITY == {}
TRANSFORM_EXPAND == {"EXPAND"}
TRANSFORM_STRIP_16 == {"STRIP_16"}
TRANSFORM_SCALE_16 == {"SCALE_16"}
Transformations == SUBSET {"EXPAND", "STRIP_16", "SCALE_16"}
contains(t, flags) == flags \subseteq t
intersects(t, flags) == t \cap flags # {}

\* ------------------------------------------------------ output-shape inquiry
output_bits(info, t) ==
  IF info.bit_depth = 16 /\ intersects(t, TRANSFORM_SCALE_16 \cup TRANSFORM_STRIP_16)
  THEN 8
  ELSE IF contains(t, TRANSFORM_EXPAND) THEN 8 ELSE info.bit_depth

output_color(info, t) ==
  IF contains(t, TRANSFORM_EXPAND)
  THEN LET has_trns == IsSome(info.trns)
       IN CASE info.color_type = "Grayscale" /\ has_trns -> "GrayscaleAlpha"
            [] info.color_type = "RGB" /\ has_trns -> "RGBA"
            [] info.color_type = "Indexed" /\ has_trns -> "RGBA"
            [] info.color_type = "Indexed" /\ ~has_trns -> "RGB"
            [] OTHER -> info.color_type
  ELSE info.color_type

\* Reader::output_color_type: <<color type, bit depth>>
output_color_type(info, t) ==
  IF t = TRANSFORM_IDENTITY
  THEN << info.color_type, info.bit_depth >>
  ELSE << output_color(info, t), output_bits(info, t) >>

line_bits(info, t) ==
  LET trns == IsSome(info.trns)
      ex == contains(t, TRANSFORM_EXPAND)
      ct == info.color_type
  IN CASE ct = "Indexed" /\ trns /\ ex -> 4 * 8
       [] ct = "Indexed" /\ ~trns /\ ex -> 3 * 8
       [] ct = "RGB" /\ trns /\ ex -> 4 * 8
       [] ct = "Grayscale" /\ trns /\ ex -> 2 * 8
       [] ct = "Grayscale" /\ ~trns /\ ex -> 1 * 8
       [] ct = "GrayscaleAlpha" /\ ex -> 2 * 8
       [] OTHER -> IF info.bit_depth = 16
                   THEN bits_per_pixel(info) \div 2
                   ELSE bits_per_pixel(info)

\* Reader::line_size
line_size(info, t, width) ==
  LET bits == line_bits(info, t) * width * (IF info.bit_depth = 16 THEN 2 ELSE 1)
      len == bits \div 8
      extra == bits % 8
  IN len + (IF extra = 0 THEN 0 ELSE 1)

\* Reader::output_line_size
output_line_size(info, t, width) ==
  LET size == line_size(info, t, width)
  IN IF info.bit_depth = 16 /\ intersects(t, TRANSFORM_SCALE_16 \cup TRANSFORM_STRIP_16)
     THEN size \div 2
     ELSE size

\* Reader::output_buffer_size
\* the line size times the width, not the height
output_buffer_size_m(info, t) == output_line_size(info, t, info.width) * info.width

output_buffer_size(info, t) == output_line_size(info, t, info.width) * info.height

\* ------------------------------------------------------------ filter module
\* FilterType::from_u8: None=0, Sub=1, Up=2, Avg=3, Paeth=4
FilterType_from_u8(n) == IF n \in 0..4 THEN Some(n) ELSE None

Abs(x) == IF x < 0 THEN -x ELSE x

PaethPredictor(a, b, c) ==
  LET p == a + b - c
      pa == Abs(p - a)
      pb == Abs(p - b)
      pc == Abs(p - c)
  IN IF pa <= pb /\ pa <= pc THEN a ELSE IF pb <= pc THEN b ELSE c

\* the first k reconstructed bytes of the row `cur` filtered with `filter`
RECURSIVE unfilter_prefix(_, _, _, _, _)
unfilter_prefix(filter, bpp, previous, cur, k) ==
  IF k = 0 THEN << >>
  ELSE LET r == unfilter_prefix(filter, bpp, previous, cur, k - 1)
           a == IF k > bpp THEN r[k - bpp] ELSE 0
           b == previous[k]
           c == IF k > bpp THEN previous[k - bpp] ELSE 0
           x == cur[k]
           pred == CASE filter = 0 -> 0
                     [] filter = 1 -> a
                     [] filter = 2 -> b
                     [] filter = 3 -> (a + b) \div 2
                     [] filter = 4 -> PaethPredictor(a, b, c)
       IN Append(r, (x + pred) % 256)

unfilter(filter, bpp, previous, cur) == unfilter_prefix(filter, bpp, previous, cur, Len(cur))

\* ------------------------------------------------------- utils: Adam7Iterator
x_start(pass) == CASE pass = 1 -> 0 [] pass = 2 -> 4 [] pass = 3 -> 0 [] pass = 4 -> 2
                   [] pass = 5 -> 0 [] pass = 6 -> 1 [] pass = 7 -> 0
y_start(pass) == CASE pass = 1 -> 0 [] pass = 2 -> 0 [] pass = 3 -> 4 [] pass = 4 -> 0
                   [] pass = 5 -> 2 [] pass = 6 -> 0 [] pass = 7 -> 1
x_stride(pass) == CASE pass = 1 -> 8 [] pass = 2 -> 8 [] pass = 3 -> 4 [] pass = 4 -> 4
                    [] pass = 5 -> 2 [] pass = 6 -> 2 [] pass = 7 -> 1
y_stride(pass) == CASE pass = 1 -> 8 [] pass = 2 -> 8 [] pass = 3 -> 8 [] pass = 4 -> 4
                    [] pass = 5 -> 4 [] pass = 6 -> 2 [] pass = 7 -> 2

pass_width(pass, width) ==
  IF width > x_start(pass) THEN CeilDiv(width - x_start(pass), x_stride(pass)) ELSE 0

pass_height(pass, height) ==
  IF height > y_start(pass) THEN CeilDiv(height - y_start(pass), y_stride(pass)) ELSE 0

\* Adam7Iterator::init_pass
init_pass(it) ==
  [it EXCEPT !.line_width = pass_width(it.current_pass, it.width),
             !.lines = pass_height(it.current_pass, it.height),
             !.line = 0]

\* Adam7Iterator::new
Adam7Iterator_new(width, height) ==
  init_pass([line |-> 0, lines |-> 0, line_width |-> 0, current_pass |-> 1,
             width |-> width, height |-> height])

\* Iterator::next for Adam7Iterator: the advanced iterator and Some(<<pass, line, width>>)
RECURSIVE adam7_next(_)
adam7_next(it) ==
  IF it.line < it.lines /\ it.line_width > 0
  THEN [it |-> [it EXCEPT !.line = @ + 1],
        item |-> Some(<< it.current_pass, it.line, it.line_width >>)]
  ELSE IF it.current_pass < 7
       THEN adam7_next(init_pass([it EXCEPT !.current_pass = @ + 1]))
       ELSE [it |-> it, item |-> None]

\* utils::expand_pass: byte b of the scanline (pixel j = b / bytes_pp) goes to
\* image row y_start + line_no * y_stride, column x_start + j * x_stride
expand_pos(stride, pass, line_no, bytes_pp, b) ==
  (y_start(pass) + line_no * y_stride(pass)) * stride
    + bytes_pp * (x_start(pass) + (b \div bytes_pp) * x_stride(pass))
    + (b % bytes_pp)

\* an index past the end of img is a panic (slice index out of bounds)
expand_pass_panics(img, stride, scanline, pass, line_no, bytes_pp) ==
  \E b \in 0..(Len(scanline) - 1) :
     expand_pos(stride, pass, line_no, bytes_pp, b) >= Len(img)

\* the writes of bytes b, b + 1, ... of the scanline, in order
RECURSIVE expand_from(_, _, _, _, _, _, _)
expand_from(img, stride, scanline, pass, line_no, bytes_pp, b) ==
  IF b >= Len(scanline) THEN img
  ELSE expand_from([img EXCEPT ![expand_pos(stride, pass, line_no, bytes_pp, b) + 1] =
                                  scanline[b + 1]],
                   stride, scanline, pass, line_no, bytes_pp, b + 1)

expand_pass(img, stride, scanline, pass, line_no, bytes_pp) ==
  expand_from(img, stride, scanline, pass, line_no, bytes_pp, 0)

\* how many times expand_pass writes each byte of img
RECURSIVE expand_count_from(_, _, _, _, _, _, _)
expand_count_from(cnt, stride, len, pass, line_no, bytes_pp, b) ==
  IF b >= len THEN cnt
  ELSE expand_count_from([cnt EXCEPT ![expand_pos(stride, pass, line_no, bytes_pp, b) + 1] = @ + 1],
                         stride, len, pass, line_no, bytes_pp, b + 1)

expand_pass_count(cnt, stride, scanline, pass, line_no, bytes_pp) ==
  expand_count_from(cnt, stride, Len(scanline), pass, line_no, bytes_pp, 0)

\* ----------------------------------------------------------- utils: unpacking
\* sample s (MSB first) of the packed row
packed_sample(buf, s, bit_depth) ==
  LET bit == s * bit_depth
      byte == buf[(bit \div 8) + 1]
      shift == 8 - bit_depth - (bit % 8)
  IN (byte \div Pow2(shift)) % Pow2(bit_depth)

\* utils::unpack_bits: every packed sample becomes `channels` bytes, func[sample]
unpack_bits(buf, channels, bit_depth, func) ==
  LET n == Len(buf) \div channels
  IN [k \in 1..Len(buf) |->
        IF k <= n * channels
        THEN func[packed_sample(buf, (k - 1) \div channels, bit_depth)][((k - 1) % channels) + 1]
        ELSE buf[k]]

\* utils::expand_trns_line: append an alpha byte to every pixel of `channels` bytes
expand_trns_line(buf, trns, channels) ==
  LET n == Len(buf) \div (channels + 1)
  IN [k \in 1..Len(buf) |->
        IF k <= n * (channels + 1)
        THEN LET p == (k - 1) \div (channels + 1)
                 o == (k - 1) % (channels + 1)
                 pixel == Slice(buf, p * channels, p * channels + channels)
             IN IF o < channels THEN pixel[o + 1]
                ELSE IF pixel = trns THEN 0 ELSE 255
        ELSE buf[k]]

\* utils::expand_trns_line16: the same on two-byte samples
expand_trns_line16(buf, trns, channels) ==
  LET w == 2 * (channels + 1)
      n == Len(buf) \div w
  IN [k \in 1..Len(buf) |->
        IF k <= n * w
        THEN LET p == (k - 1) \div w
                 o == (k - 1) % w
                 pixel == Slice(buf, p * 2 * channels, p * 2 * channels + 2 * channels)
             IN IF o < 2 * channels THEN pixel[o + 1]
                ELSE IF pixel = trns THEN 0 ELSE 255
        ELSE buf[k]]

\* --------------------------------------------------- transformation pipeline
\* Reader::expand_gray_u8
expand_gray_u8(buf, info) ==
  LET scaling_factor == 255 \div (Pow2(info.bit_depth) - 1)
      with_alpha == [pixel \in 0..255 |->
                       << pixel * scaling_factor,
                          IF pixel = Unwrap(info.trns)[1] THEN 0 ELSE 255 >>]
      plain == [val \in 0..255 |-> << val * scaling_factor >>]
  IN IF IsSome(info.trns)
     THEN unpack_bits(buf, 2, info.bit_depth, with_alpha)
     ELSE unpack_bits(buf, 1, info.bit_depth, plain)

\* Reader::expand_paletted panics without a palette and on an index outside it
expand_paletted_panics(buf, info) ==
  \/ ~IsSome(info.palette)
  \/ LET channels == IF IsSome(info.trns) THEN 4 ELSE 3
     IN \E s \in 0..((Len(buf) \div channels) - 1) :
           3 * packed_sample(buf, s, info.bit_depth) + 3 > Len(Unwrap(info.palette))

\* an index past the end of trns gets alpha 0
expand_paletted_m(buf, info) ==
  LET palette == Unwrap(info.palette)
      rgba == [i \in 0..255 |->
                 << palette[3 * i + 1], palette[3 * i + 2], palette[3 * i + 3],
                    IF i < Len(Unwrap(info.trns)) THEN Unwrap(info.trns)[i + 1] ELSE 0 >>]
      rgb == [i \in 0..255 |-> << palette[3 * i + 1], palette[3 * i + 2], palette[3 * i + 3] >>]
  IN IF IsSome(info.trns)
     THEN unpack_bits(buf, 4, info.bit_depth, rgba)
     ELSE unpack_bits(buf, 3, info.bit_depth, rgb)

\* Reader::expand_paletted
expand_paletted(buf, info) ==
  LET palette == Unwrap(info.palette)
      rgba == [i \in 0..255 |->
                 << palette[3 * i + 1], palette[3 * i + 2], palette[3 * i + 3],
                    IF i < Len(Unwrap(info.trns)) THEN Unwrap(info.trns)[i + 1] ELSE 255 >>]
      rgb == [i \in 0..255 |-> << palette[3 * i + 1], palette[3 * i + 2], palette[3 * i + 3] >>]
  IN IF IsSome(info.trns)
     THEN unpack_bits(buf, 4, info.bit_depth, rgba)
     ELSE unpack_bits(buf, 3, info.bit_depth, rgb)

\* the EXPAND stage of next_interlaced_row
expand_stage(buf, info) ==
  LET ct == info.color_type
      trns == IsSome(info.trns)
  IN CASE ct = "Indexed" -> expand_paletted(buf, info)
       [] ct \in {"Grayscale", "GrayscaleAlpha"} /\ info.bit_depth < 8 -> expand_gray_u8(buf, info)
       [] ct \in {"Grayscale", "RGB"} /\ ~(ct = "Grayscale" /\ info.bit_depth < 8) /\ trns ->
            IF info.bit_depth = 8
            THEN expand_trns_line(buf, Unwrap(info.trns), samples(ct))
            ELSE expand_trns_line16(buf, Unwrap(info.trns), samples(ct))
       [] OTHER -> buf

\* the 16-bit reduction of next_interlaced_row: processed[i] = processed[2 * i]
strip16(buf, len) == [i \in 1..Len(buf) |-> IF i <= len THEN buf[2 * (i - 1) + 1] ELSE buf[i]]

\* ------------------------------------------------- stream: the parser's events
\* Decoded, as the core consumes it; a Header event carries the Info the parser
\* holds from then on
Event(tag, kind, data, hdr) == [tag |-> tag, kind |-> kind, data |-> data, info |-> hdr]
EvNothing == Event("Nothing", "", << >>, None)
EvHeader(info) == Event("Header", "", << >>, Some(info))
EvChunkBegin(kind) == Event("ChunkBegin", kind, << >>, None)
EvImageData(data) == Event("ImageData", "", data, None)
EvImageEnd == Event("ImageEnd", "", << >>, None)

\* decode_next: update until an event other than Nothing surfaces; ImageEnd is None.
\* s is what the parser still has to deliver, di the parser's info().
\* The Err arms of lines 490 and 493 (a read error of the upstream reader, a
\* parse error) are not modelled: every stream here is one the parser accepts.
RECURSIVE decode_next(_, _)
decode_next(s, di) ==
  LET e == Head(s)
  IN CASE e.tag = "Nothing" -> decode_next(Tail(s), di)
       [] e.tag = "ImageEnd" -> [val |-> None, stream |-> s, d_info |-> di]
       [] OTHER -> [val |-> Some(e), stream |-> Tail(s),
                    d_info |-> IF e.tag = "Header" THEN e.info ELSE di]

\* ------------------------------------------------------------------ Reader
\* The part of the Reader that row assembly reads and writes, with the parser:
\*   [eof, adam7, prev, current, stream, d_info, pulls, ended, rl, cur0, maxcur,
\*    prev_in, taken, received]
\* pulls counts the decode_next calls of the current call to the Reader, ended says
\* the last of them returned None, rl is the rowlen the row loop last ran with, cur0
\* the length of current when the call was made, maxcur the longest current that a
\* decode_next call was made with (-1: none), prev_in the previous row last handed
\* to unfilter; taken is the filtered rows taken off current so far and received
\* the ImageData payloads received so far, both since read_info.

\* what a call returns, with the Reader it leaves behind
Ret(m, res, err, errn, row, passdata) ==
  [m |-> m, res |-> res, err |-> err, errn |-> errn, row |-> row, passdata |-> passdata]

\* a row is taken only when a byte of the next one is buffered too
row_buffered_m(current, rowlen) == Len(current) > rowlen

\* line 431: a full filtered row is buffered
row_buffered(current, rowlen) == Len(current) >= rowlen

\* a single left-over byte is not taken for a truncated row
is_truncated_m(current) == Len(current) > 1

\* line 459: image data ended inside a row
is_truncated(current) == Len(current) > 0

RECURSIVE row_loop(_, _, _, _)

\* an unknown filter type is taken for filter type 0
row_take_m(m, bpp, rowlen, passdata, filter) ==
  LET cur == unfilter(IF IsSome(filter) THEN Unwrap(filter) ELSE 0, bpp,
                      Slice(m.prev, 1, rowlen), Slice(m.current, 1, rowlen))
      prev2 == WriteInto(m.prev, << m.current[1] >> \o cur)
  IN Ret([m EXCEPT !.prev = prev2, !.current = Slice(m.current, rowlen, Len(m.current)),
                   !.prev_in = Slice(m.prev, 1, rowlen),
                   !.taken = @ \o Slice(m.current, 0, rowlen)],
         "Row", "", -1, Slice(prev2, 1, rowlen), passdata)

\* lines 432-447: take the buffered row off the front of current
row_take(m, bpp, rowlen, passdata, filter) ==
  IF IsSome(filter)
  THEN LET cur == unfilter(Unwrap(filter), bpp, Slice(m.prev, 1, rowlen),
                           Slice(m.current, 1, rowlen))
           prev2 == WriteInto(m.prev, << m.current[1] >> \o cur)
       IN Ret([m EXCEPT !.prev = prev2, !.current = Slice(m.current, rowlen, Len(m.current)),
                        !.prev_in = Slice(m.prev, 1, rowlen),
                        !.taken = @ \o Slice(m.current, 0, rowlen)],
              "Row", "", -1, Slice(prev2, 1, rowlen), passdata)
  ELSE Ret(m, "Err", "Format: invalid filter method", m.current[1], << >>, None)

\* a payload replaces current
row_pulled_m(m, bpp, rowlen, passdata, d) ==
  LET m1 == [m EXCEPT !.stream = d.stream, !.d_info = d.d_info,
                      !.pulls = @ + 1, !.ended = ~IsSome(d.val),
                      !.maxcur = Max(@, Len(m.current))]
  IN IF IsSome(d.val)
     THEN row_loop(IF Unwrap(d.val).tag = "ImageData"
                   THEN [m1 EXCEPT !.current = Unwrap(d.val).data,
                                   !.received = @ \o Unwrap(d.val).data]
                   ELSE m1,
                   bpp, rowlen, passdata)
     ELSE IF is_truncated(m1.current)
          THEN Ret(m1, "Err", "Format: file truncated", -1, << >>, None)
          ELSE Ret([m1 EXCEPT !.eof = TRUE], "None", "", -1, << >>, None)

\* lines 453-469: what the row loop does with the value d.val of decode_next
row_pulled(m, bpp, rowlen, passdata, d) ==
  LET m1 == [m EXCEPT !.stream = d.stream, !.d_info = d.d_info,
                      !.pulls = @ + 1, !.ended = ~IsSome(d.val),
                      !.maxcur = Max(@, Len(m.current))]
  IN IF IsSome(d.val)
     THEN row_loop(IF Unwrap(d.val).tag = "ImageData"
                   THEN [m1 EXCEPT !.current = @ \o Unwrap(d.val).data,
                                   !.received = @ \o Unwrap(d.val).data]
                   ELSE m1,
                   bpp, rowlen, passdata)
     ELSE IF is_truncated(m1.current)
          THEN Ret(m1, "Err", "Format: file truncated", -1, << >>, None)
          ELSE Ret([m1 EXCEPT !.eof = TRUE], "None", "", -1, << >>, None)

\* lines 430-471: the row assembly loop
row_loop(m, bpp, rowlen, passdata) ==
  IF row_buffered(m.current, rowlen)
  THEN row_take(m, bpp, rowlen, passdata, FilterType_from_u8(m.current[1]))
  ELSE row_pulled(m, bpp, rowlen, passdata, decode_next(m.stream, m.d_info))

\* prev is not cleared when a new pass begins
adam7_row_keep(m, bpp, last_pass, n) ==
  IF IsSome(n.item)
  THEN LET rl == raw_row_length_from_width(Unwrap(m.d_info), Unwrap(n.item)[3])
       IN row_loop([m EXCEPT !.adam7 = Some(n.it), !.rl = rl,
                             !.prev = IF Len(@) < rl THEN Resize(@, rl) ELSE @],
                   bpp, rl, n.item)
  ELSE Ret([m EXCEPT !.adam7 = Some(n.it)], "None", "", -1, << >>, None)

\* the pass data reports the pass the iterator was in before the call
adam7_row_m(m, bpp, last_pass, n) ==
  IF IsSome(n.item)
  THEN LET rl == raw_row_length_from_width(Unwrap(m.d_info), Unwrap(n.item)[3])
       IN row_loop([m EXCEPT !.adam7 = Some(n.it), !.rl = rl,
                             !.prev = IF last_pass # Unwrap(n.item)[1] THEN Zeros(rl) ELSE @],
                   bpp, rl, Some(<< last_pass, Unwrap(n.item)[2], Unwrap(n.item)[3] >>))
  ELSE Ret([m EXCEPT !.adam7 = Some(n.it)], "None", "", -1, << >>, None)

\* lines 413-426: the row of the next Adam7 item n.item, n.it the advanced iterator
adam7_row(m, bpp, last_pass, n) ==
  IF IsSome(n.item)
  THEN LET rl == raw_row_length_from_width(Unwrap(m.d_info), Unwrap(n.item)[3])
       IN row_loop([m EXCEPT !.adam7 = Some(n.it), !.rl = rl,
                             !.prev = IF last_pass # Unwrap(n.item)[1] THEN Zeros(rl) ELSE @],
                   bpp, rl, n.item)
  ELSE Ret([m EXCEPT !.adam7 = Some(n.it)], "None", "", -1, << >>, None)

\* Reader::next_raw_interlaced_row
next_raw_interlaced_row(m, bpp, rowlen) ==
  IF m.eof
  THEN Ret(m, "None", "", -1, << >>, None)
  ELSE IF IsSome(m.adam7)
       THEN adam7_row(m, bpp, Unwrap(m.adam7).current_pass, adam7_next(Unwrap(m.adam7)))
       ELSE row_loop([m EXCEPT !.rl = rowlen], bpp, rowlen, None)

\* the reduction is made for STRIP_16 only
reduces_m(info, t) == info.bit_depth = 16 /\ contains(t, TRANSFORM_STRIP_16)

\* line 258: either flag asks for the 16-bit reduction
reduces(info, t) ==
  info.bit_depth = 16 /\ intersects(t, TRANSFORM_SCALE_16 \cup TRANSFORM_STRIP_16)

\* lines 258-259: the 16-bit reduction halves the length of the row
strip_len(len, strip) == IF strip THEN len \div 2 ELSE len

\* lines 233-268: the transformation pipeline on the scratch buffer that holds the
\* raw row; [panic, row, processed]
pipeline(buffer, passdata, info, t) ==
  LET old_len == Len(buffer)
      p1 == IF IsSome(passdata)
            THEN Resize(buffer, line_size(info, t, Unwrap(passdata)[3]))
            ELSE buffer
      len0 == Len(p1)
      expand == contains(t, TRANSFORM_EXPAND)
      pal_panic == expand /\ info.color_type = "Indexed" /\ expand_paletted_panics(p1, info)
      p2 == IF expand THEN expand_stage(p1, info) ELSE p1
      strip == reduces(info, t)
      len == strip_len(len0, strip)
      p3 == IF strip THEN strip16(p2, len) ELSE p2
      p4 == Resize(p3, old_len)
  IN IF pal_panic \/ len > old_len
     THEN [panic |-> TRUE, row |-> << >>, processed |-> << >>]
     ELSE [panic |-> FALSE, row |-> SubSeq(p4, 1, len), processed |-> p4]

\* the call returns all of processed, not processed[..len]
processed_row_m(raw, out) ==
  IF out.panic
  THEN [r |-> Ret(raw.m, "Panic", "", -1, << >>, None), processed |-> << >>]
  ELSE [r |-> [raw EXCEPT !.row = out.processed], processed |-> out.processed]

\* lines 264-268: the row the call returns is processed[..len]
processed_row(raw, out) ==
  IF out.panic
  THEN [r |-> Ret(raw.m, "Panic", "", -1, << >>, None), processed |-> << >>]
  ELSE [r |-> [raw EXCEPT !.row = out.row], processed |-> out.processed]

\* lines 224-271: what next_interlaced_row makes of the raw row call `raw`, with the
\* scratch buffer it leaves: an error leaves the Vec::new() that was swapped in
transformed(raw, processed, info, t) ==
  CASE raw.res = "Err" -> [r |-> raw, processed |-> << >>]
    [] raw.res = "None" -> [r |-> raw, processed |-> processed]
    [] raw.res = "Row" -> processed_row(raw, pipeline(WriteInto(processed, raw.row),
                                                      raw.passdata, info, t))

\* Reader::next_interlaced_row (next_row is the same call with the pass data dropped);
\* the result of the call with the scratch buffer `processed` it leaves
next_interlaced_row(m, processed, t, bpp, rowlen) ==
  IF t = TRANSFORM_IDENTITY
  THEN [r |-> next_raw_interlaced_row(m, bpp, rowlen), processed |-> processed]
  ELSE transformed(next_raw_interlaced_row(m, bpp, rowlen), processed, Unwrap(m.d_info), t)

RECURSIVE init_loop(_, _)

\* the end of the stream leaves the loop as the IDAT chunk does
init_pulled_m(d) ==
  IF ~IsSome(d.val)
  THEN [found |-> TRUE, ended |-> TRUE, stream |-> d.stream, d_info |-> d.d_info]
  ELSE IF Unwrap(d.val).tag = "ChunkBegin" /\ Unwrap(d.val).kind = "IDAT"
       THEN [found |-> TRUE, ended |-> FALSE, stream |-> d.stream, d_info |-> d.d_info]
       ELSE init_loop(d.stream, d.d_info)

\* lines 153-159: what the loop of Reader::init does with the value d.val of decode_next
init_pulled(d) ==
  IF ~IsSome(d.val)
  THEN [found |-> FALSE, ended |-> TRUE, stream |-> d.stream, d_info |-> d.d_info]
  ELSE IF Unwrap(d.val).tag = "ChunkBegin" /\ Unwrap(d.val).kind = "IDAT"
       THEN [found |-> TRUE, ended |-> FALSE, stream |-> d.stream, d_info |-> d.d_info]
       ELSE init_loop(d.stream, d.d_info)

\* lines 152-160 of Reader::init: advance to the first IDAT chunk
init_loop(s, di) == init_pulled(decode_next(s, di))

\* Reader::allocate_out_buf; get_info!(self) unwraps the parser's info
allocate_out_buf_panics(di) == ~IsSome(di)
allocate_out_buf(di, t) == Zeros(line_size(Unwrap(di), t, Unwrap(di).width))

\* lines 161-174 of Reader::init, l the outcome of the loop
init_after(l, t) ==
  LET at == [res |-> "Ok", err |-> "", stream |-> l.stream, d_info |-> l.d_info,
             ended |-> l.ended, bpp |-> 0, rowlen |-> 0, adam7 |-> None,
             prev |-> << >>, processed |-> << >>]
  IN IF ~l.found
     THEN [at EXCEPT !.res = "Err", !.err = "Format: IDAT chunk missing"]
     ELSE IF allocate_out_buf_panics(l.d_info)
          THEN [at EXCEPT !.res = "Panic"]
          ELSE IF ~IsSome(l.d_info)
               THEN [at EXCEPT !.res = "Err", !.err = "Format: IHDR chunk missing"]
               ELSE [at EXCEPT !.processed = allocate_out_buf(l.d_info, t),
                               !.bpp = bytes_per_pixel(Unwrap(l.d_info)),
                               !.rowlen = raw_row_length(Unwrap(l.d_info)),
                               !.adam7 = IF Unwrap(l.d_info).interlaced
                                         THEN Some(Adam7Iterator_new(Unwrap(l.d_info).width,
                                                                     Unwrap(l.d_info).height))
                                         ELSE None,
                               !.prev = Zeros(raw_row_length(Unwrap(l.d_info)))]

\* Reader::init on the Reader that Reader::new built
reader_init(s, di, t) ==
  IF IsSome(di)
  THEN [res |-> "Ok", err |-> "", stream |-> s, d_info |-> di, ended |-> FALSE,
        bpp |-> 0, rowlen |-> 0, adam7 |-> None, prev |-> << >>, processed |-> << >>]
  ELSE init_after(init_loop(s, di), t)

\* ----------------------------------------------------------------- history
\* what the caller has seen: the rows yielded so far, their total length, and
\* the pass data of the last two rows yielded
\* and: the reconstructed bytes of the last two rows yielded, before the
\* transformations; the filtered rows taken off current; the payloads received
NoRows == [nrows |-> 0, nbytes |-> 0, prev_pd |-> None, cur_pd |-> None,
           raw |-> << >>, raw_before |-> << >>, prev_in |-> << >>, taken |-> << >>, received |-> << >>]
note_row(h, row, passdata) ==
  [h EXCEPT !.nrows = @ + 1, !.nbytes = @ + Len(row),
            !.prev_pd = h.cur_pd, !.cur_pd = passdata]

\* m is the Reader as the call that yielded a row left it: prev holds that row
note_raw(h, m) ==
  [h EXCEPT !.raw_before = h.raw, !.raw = Slice(m.prev, 1, m.rl), !.prev_in = m.prev_in]

\* m is the Reader as a call left it
note_call(h, m) == [h EXCEPT !.taken = m.taken, !.received = m.received]

Yielded(row, passdata) == [row |-> row, passdata |-> passdata]

\* --------------------------------------------------------------- next_frame
\* the size check one byte too lenient
buffer_too_small_m(len, info, t) == len + 1 < output_buffer_size(info, t)

\* line 187
buffer_too_small(len, info, t) == len < output_buffer_size(info, t)

\* line 201: (&mut buf[len..]).write(row)
write_at(buf, len, row) ==
  [k \in 1..Len(buf) |-> IF k > len /\ k <= len + Len(row) THEN row[k - len] ELSE buf[k]]
count_at(cnt, len, row) ==
  [k \in 1..Len(cnt) |-> IF k > len /\ k <= len + Len(row) THEN cnt[k] + 1 ELSE cnt[k]]

\* lines 192-203: f = [m, processed, buf, cnt, len, h, rows] is the Reader, the
\* caller's buffer with the number of writes to each of its bytes, the write offset
\* of the non-interlaced branch, the history and the rows this call was yielded
RECURSIVE frame_loop(_, _, _, _)

\* line 196: expand_pass on the caller's buffer
frame_expand(f, t, bpp, rowlen, row, pass, line, stride, bytes) ==
  IF expand_pass_panics(f.buf, stride, row, pass, line, bytes)
  THEN [f |-> f, res |-> "Panic", err |-> "", errn |-> -1]
  ELSE frame_loop([f EXCEPT !.buf = expand_pass(@, stride, row, pass, line, bytes),
                            !.cnt = expand_pass_count(@, stride, row, pass, line, bytes)],
                  t, bpp, rowlen)

\* lines 193-202: what the loops of next_frame do with the result c of
\* next_interlaced_row; f holds the Reader as that call left it
frame_step(f, t, bpp, rowlen, c, info) ==
  CASE c.r.res = "Err" -> [f |-> f, res |-> "Err", err |-> c.r.err, errn |-> c.r.errn]
    [] c.r.res = "Panic" -> [f |-> f, res |-> "Panic", err |-> "", errn |-> -1]
    [] c.r.res = "None" -> [f |-> f, res |-> "Ok", err |-> "", errn |-> -1]
    [] c.r.res = "Row" ->
         IF info.interlaced
         THEN frame_expand([f EXCEPT !.h = note_raw(note_row(@, c.r.row, c.r.passdata), f.m),
                                     !.rows = Append(@, Yielded(c.r.row, c.r.passdata))],
                           t, bpp, rowlen, c.r.row,
                           Unwrap(c.r.passdata)[1], Unwrap(c.r.passdata)[2],
                           info.width * samples(output_color_type(info, t)[1]),
                           samples(output_color_type(info, t)[1]))
         ELSE frame_loop([f EXCEPT !.h = note_raw(note_row(@, c.r.row, c.r.passdata), f.m),
                                   !.rows = Append(@, Yielded(c.r.row, c.r.passdata)),
                                   !.buf = write_at(@, f.len, c.r.row),
                                   !.cnt = count_at(@, f.len, c.r.row),
                                   !.len = @ + Min(Len(f.buf) - f.len, Len(c.r.row))],
                         t, bpp, rowlen)

frame_called(f, t, bpp, rowlen, c) ==
  frame_step([f EXCEPT !.m = c.r.m, !.processed = c.processed], t, bpp, rowlen, c,
             Unwrap(f.m.d_info))

frame_loop(f, t, bpp, rowlen) ==
  frame_called(f, t, bpp, rowlen, next_interlaced_row(f.m, f.processed, t, bpp, rowlen))

\* Reader::next_frame
next_frame(f, t, bpp, rowlen) ==
  IF buffer_too_small(Len(f.buf), Unwrap(f.m.d_info), t)
  THEN [f |-> f, res |-> "Err",
        err |-> "Other: supplied buffer is too small to hold the image", errn |-> -1]
  ELSE frame_loop(f, t, bpp, rowlen)

\* ------------------------------------------------------------------ inputs
Depths(ct) ==
  CASE ct = "Grayscale" -> {1, 2, 4, 8, 16}
    [] ct = "RGB" -> {8, 16}
    [] ct = "Indexed" -> {1, 2, 4, 8}
    [] ct = "GrayscaleAlpha" -> {8, 16}
    [] ct = "RGBA" -> {8, 16}

TrnsChoices(ct) ==
  CASE ct = "Grayscale" -> {None, Some(<< 0, 1 >>)}
    [] ct = "RGB" -> {None, Some(<< 0, 1, 0, 2, 0, 3 >>)}
    [] ct = "Indexed" -> {None, Some(<< 255, 0, 128 >>)}
    [] OTHER -> {None}

PaletteFor(ct, depth) ==
  IF ct = "Indexed"
  THEN Some([k \in 1..(3 * Min(Pow2(depth), 4)) |-> (10 * k) % 256])
  ELSE None

Headers(cts, depths) ==
  UNION { { [width |-> w, height |-> h, color_type |-> ct, bit_depth |-> d,
             interlaced |-> il, trns |-> tr, palette |-> PaletteFor(ct, d)] :
            w \in 1..MaxWidth, h \in 1..MaxHeight, d \in Depths(ct) \cap depths,
            il \in BOOLEAN, tr \in TrnsChoices(ct) } : ct \in cts }

\* the pass widths of the rows of the image, in source order
RECURSIVE adam7_widths(_)
adam7_widths(it) ==
  LET n == adam7_next(it)
  IN IF IsSome(n.item) THEN << Unwrap(n.item)[3] >> \o adam7_widths(n.it) ELSE << >>

RowWidths(info) ==
  IF info.interlaced
  THEN adam7_widths(Adam7Iterator_new(info.width, info.height))
  ELSE [i \in 1..info.height |-> info.width]

\* the filtered rows of an image: row r starts with filter byte
\* (plan[1] + (r - 1) * plan[2]) % 6, where 5 is no filter type
RECURSIVE image_rows(_, _, _, _, _)
image_rows(info, widths, r, plan, seed) ==
  IF r > Len(widths) THEN << >>
  ELSE << (plan[1] + (r - 1) * plan[2]) % 6 >>
       \o [k \in 1..(raw_row_length_from_width(info, widths[r]) - 1) |-> (seed * (r + k)) % 256]
       \o image_rows(info, widths, r + 1, plan, seed)

ImageBytes(info, plan, seed) == image_rows(info, RowWidths(info), 1, plan, seed)

\* the inflated image data: delta < 0 cuts bytes off the end, delta > 0 adds bytes
DataBytes(info, plan, seed, delta) ==
  LET all == ImageBytes(info, plan, seed)
  IN IF delta <= 0
     THEN SubSeq(all, 1, Max(0, Len(all) + delta))
     ELSE all \o [i \in 1..delta |-> 0]

\* the data cut into ImageData events of pat[1], pat[2], pat[1], ... bytes; with
\* noise, a ChunkBegin(IDAT) and a Nothing come before every fragment
RECURSIVE Fragments(_, _, _, _)
Fragments(data, pat, i, noise) ==
  IF data = << >> THEN << >>
  ELSE LET n == Min(pat[i], Len(data))
       IN (IF noise THEN << EvChunkBegin("IDAT"), EvNothing >> ELSE << >>)
          \o << EvImageData(SubSeq(data, 1, n)) >>
          \o Fragments(SubSeq(data, n + 1, Len(data)), pat, 3 - i, noise)

Preludes == {"ok", "plte", "no_ihdr", "no_idat", "no_chunks"}

Prelude(kind, info) ==
  CASE kind = "ok" -> << EvChunkBegin("IHDR"), EvHeader(info), EvChunkBegin("IDAT") >>
    [] kind = "plte" -> << EvNothing, EvChunkBegin("IHDR"), EvHeader(info),
                           EvChunkBegin("PLTE"), EvNothing, EvChunkBegin("IDAT") >>
    [] kind = "no_ihdr" -> << EvChunkBegin("gAMA"), EvChunkBegin("IDAT") >>
    [] kind = "no_idat" -> << EvChunkBegin("IHDR"), EvHeader(info), EvChunkBegin("IEND") >>
    [] kind = "no_chunks" -> << >>

\* one input: the transformation set given to the Decoder and the events the
\* parser will deliver from the upstream bytes, ImageEnd last
Input(info, t, kind, plan, seed, delta, pat, noise) ==
  LET data == DataBytes(info, plan, seed, delta)
      has_data == kind \in {"ok", "plte", "no_ihdr"}
  IN [transform |-> t,
      stream |-> Prelude(kind, info)
                 \o (IF has_data THEN Fragments(data, pat, 1, noise) ELSE << >>)
                 \o << EvImageEnd >>,
      data_len |-> IF has_data THEN Len(data) ELSE 0]

AllAtOnce == << 1000, 1000 >>
FragPatterns == { << 1, 1 >>, << 2, 2 >>, << 1, MaxFrag >>, AllAtOnce }
FilterPlans == { << 0, 0 >>, << 1, 1 >>, << 4, 1 >>, << 5, 0 >> }
DefaultTransform == {"EXPAND", "STRIP_16", "SCALE_16"}

\* every header and transformation set, on a well-formed image
ShapeInputs ==
  { Input(info, t, "ok", << 0, 0 >>, 0, 0, AllAtOnce, FALSE) :
      info \in Headers(ColorTypes, {1, 2, 4, 8, 16}), t \in Transformations }

\* every filter plan, cut, surplus and fragmentation, on 8-bit images
FlowInputs ==
  { Input(info, t, "plte", plan, 27, delta, pat, pat[1] = 2) :
      info \in { h \in Headers({"Grayscale"}, {8}) : h.trns = None },
      t \in {TRANSFORM_IDENTITY, DefaultTransform},
      plan \in FilterPlans, delta \in (-MaxCut)..MaxExtra, pat \in FragPatterns }

\* every way the chunks before the image data can be laid out
PreludeInputs ==
  { Input(info, t, kind, << 0, 0 >>, 27, 0, << 1, 1 >>, FALSE) :
      info \in { h \in Headers({"Grayscale"}, {8, 16}) : h.trns = None /\ h.height = 1 },
      t \in {TRANSFORM_IDENTITY, DefaultTransform}, kind \in Preludes }

\* pixel values other than 0: palette indices on Indexed images under EXPAND, and
\* 16-bit samples under each way of asking for the 16-bit reduction
PixelInputs ==
  { Input(info, TRANSFORM_EXPAND, "ok", << 0, 0 >>, seed, 0, AllAtOnce, FALSE) :
      info \in Headers({"Indexed"}, {1, 2, 4, 8}), seed \in {1, 27} }
  \cup
  { Input(info, t, "ok", << 0, 0 >>, 27, 0, AllAtOnce, FALSE) :
      info \in { h \in Headers({"Grayscale", "RGB"}, {16}) : h.height = 1 },
      t \in {TRANSFORM_STRIP_16, TRANSFORM_SCALE_16 \cup TRANSFORM_EXPAND} }

Inputs == ShapeInputs \cup FlowInputs \cup PreludeInputs \cup PixelInputs

\* ------------------------------------------------- the chunk driver, byte by byte
\* decode_next (lines 484-506) at the level of the bytes of the read buffer. The
\* bytes themselves are left out: the upstream reader is the count of bytes it has
\* yet to deliver, the parser is what update may answer for a slice of a given
\* length.

\* r.read(buf): some of the bytes that are left, at most buf.len() of them, 0 at
\* the end of the source, or an error
read(left) ==
  {[ok |-> TRUE, n |-> k] : k \in (IF left = 0 THEN {0} ELSE 1..Min(left, CHUNCK_BUFFER_SIZE))}
  \cup {[ok |-> FALSE, n |-> 0]}

Events == {"Nothing", "ChunkBegin", "ImageData", "ImageEnd"}

\* d.update(slice): the bytes consumed and the event, or an error; an empty slice
\* has nothing to consume and gives no event
update(len) ==
  IF len = 0
  THEN {[n |-> 0, ev |-> "Nothing"]}
  ELSE {[n |-> k, ev |-> e] : k \in 1..len, e \in Events} \cup {[n |-> 0, ev |-> "Err"]}

NoStep == [read |-> None, zero |-> FALSE, updated |-> FALSE, pos0 |-> 0, n |-> 0,
           ev |-> "Nothing", ret |-> "none"]

\* lines 489-492: the refill when the buffer is used up; rd is what r.read gave
refill(c, rd) ==
  IF c.pos = c.end
  THEN [c EXCEPT !.end = rd.n, !.pos = 0, !.r_left = @ - rd.n]
  ELSE c

\* lines 493-504: the arms of the match on what update gave
matched(c, u) ==
  CASE u.ev = "Err" -> [c EXCEPT !.pc = "idle", !.ret = "Err"]
    [] u.ev = "Nothing" -> [c EXCEPT !.pos = @ + u.n]
    [] u.ev = "ImageEnd" -> [c EXCEPT !.pc = "idle", !.ret = "None", !.d_ended = TRUE]
    [] OTHER -> [c EXCEPT !.pos = @ + u.n, !.pc = "idle", !.ret = "Some"]

\* ------------------------------------------------------------------- state
VARIABLES
  phase,      \* "decoder": Decoder::new returned; "reader": read_info returned Ok;
              \* "failed": read_info returned Err; "panicked"
  transform,  \* Decoder.transform, Reader.transform
  stream,     \* the events the parser has yet to deliver
  d_info,     \* StreamingDecoder's info(): None or Some(Info)
  eof, bpp, rowlen, adam7, prev, current, processed,   \* the Reader's fields
  data_len,   \* bytes of inflated image data in the input
  frame,      \* the buffer the caller gave next_frame, as the call left it, when that
              \* was the last call; -1 is a byte the caller's content is still in
  written,    \* the number of writes that call made to each byte of frame
  hist,       \* the rows yielded so far
  last,       \* the last call and what it returned
  pos, end,   \* the cursors of the read buffer buf
  r_left,     \* the bytes the upstream reader r has yet to deliver
  pc,         \* "idle": no call of decode_next is running; "loop": one is at line 488
  d_ended,    \* the parser has reported ImageEnd
  step        \* the last iteration of the loop of decode_next

rvars == << phase, transform, stream, d_info, eof, bpp, rowlen, adam7, prev, current,
            processed, data_len, frame, written, hist, last >>
dvars == << pos, end, r_left, pc, d_ended, step >>
vars == << rvars, dvars >>

\* a call as the caller saw it: what it returned (res, err, errn), the rows it
\* was yielded, the decode_next calls it made (pulled), whether the last of them
\* returned None (ended), the rowlen its row loop last ran with (rl), whether eof
\* was set when it was made, the length of the buffer it was given, and cur0,
\* maxcur and prev_in of the Reader
Call(op, res, err, errn, rows, m, eof_before, buflen) ==
  [op |-> op, res |-> res, err |-> err, errn |-> errn, rows |-> rows,
   pulled |-> m.pulls, ended |-> m.ended, rl |-> m.rl,
   cur0 |-> m.cur0, maxcur |-> m.maxcur, prev_in |-> m.prev_in,
   eof_before |-> eof_before, buflen |-> buflen]

NoCall == [pulls |-> 0, ended |-> FALSE, rl |-> 0, cur0 |-> 0, maxcur |-> -1, prev_in |-> << >>]

\* Decoder::new and Reader::new
Init ==
  \E in \in Inputs :
    /\ phase = "decoder"
    /\ transform = in.transform
    /\ stream = in.stream
    /\ data_len = in.data_len
    /\ d_info = None
    /\ eof = FALSE
    /\ bpp = 0
    /\ rowlen = 0
    /\ adam7 = None
    /\ prev = << >>
    /\ current = << >>
    /\ processed = << >>
    /\ frame = << >>
    /\ written = << >>
    /\ hist = NoRows
    /\ last = Call("new", "Ok", "", -1, << >>, NoCall, FALSE, 0)
    /\ pos = 0
    /\ end = 0
    /\ r_left = 0
    /\ pc = "idle"
    /\ d_ended = FALSE
    /\ step = NoStep

\* the Reader as row assembly sees it
Machine ==
  [eof |-> eof, adam7 |-> adam7, prev |-> prev, current |-> current, stream |-> stream,
   d_info |-> d_info, pulls |-> 0, ended |-> FALSE, rl |-> 0,
   cur0 |-> Len(current), maxcur |-> -1, prev_in |-> << >>,
   taken |-> hist.taken, received |-> hist.received]

SetMachine(m) ==
  /\ eof' = m.eof
  /\ adam7' = m.adam7
  /\ prev' = m.prev
  /\ current' = m.current
  /\ stream' = m.stream
  /\ d_info' = m.d_info

\* Decoder::read_info
ReadInfo ==
  /\ phase = "decoder"
  /\ \E r \in {reader_init(stream, d_info, transform)} :
        /\ phase' = CASE r.res = "Ok" -> "reader" [] r.res = "Err" -> "failed"
                      [] r.res = "Panic" -> "panicked"
        /\ stream' = r.stream
        /\ d_info' = r.d_info
        /\ bpp' = r.bpp
        /\ rowlen' = r.rowlen
        /\ adam7' = r.adam7
        /\ prev' = r.prev
        /\ processed' = r.processed
        /\ last' = Call("read_info", r.res, r.err, -1, << >>,
                        [NoCall EXCEPT !.ended = r.ended], FALSE, 0)
  /\ UNCHANGED << transform, data_len, eof, current, frame, written, hist >>
  /\ UNCHANGED dvars

\* Reader::next_interlaced_row, and Reader::next_row, which drops the pass data
NextRow ==
  /\ phase = "reader"
  /\ \E c \in {next_interlaced_row(Machine, processed, transform, bpp, rowlen)} :
        /\ SetMachine(c.r.m)
        /\ processed' = c.processed
        /\ phase' = IF c.r.res = "Panic" THEN "panicked" ELSE phase
        /\ hist' = note_call(IF c.r.res = "Row"
                              THEN note_raw(note_row(hist, c.r.row, c.r.passdata), c.r.m)
                              ELSE hist,
                              c.r.m)
        /\ last' = Call("next_row", c.r.res, c.r.err, c.r.errn,
                        IF c.r.res = "Row" THEN << Yielded(c.r.row, c.r.passdata) >> ELSE << >>,
                        c.r.m, eof, 0)
  /\ frame' = << >>
  /\ written' = << >>
  /\ UNCHANGED << transform, data_len, bpp, rowlen >>
  /\ UNCHANGED dvars

\* the lengths of the buffers handed to next_frame
FrameLens == { n \in 0..(output_buffer_size(Unwrap(d_info), transform) + MaxSlack) :
                 n + 1 >= output_buffer_size(Unwrap(d_info), transform) }

\* Reader::next_frame on a caller's buffer of n bytes
NextFrame ==
  /\ phase = "reader"
  /\ \E n \in FrameLens :
       \E r \in {next_frame([m |-> Machine, processed |-> processed,
                               buf |-> [i \in 1..n |-> -1], cnt |-> Zeros(n),
                               len |-> 0, h |-> hist, rows |-> << >>],
                              transform, bpp, rowlen)} :
          /\ SetMachine(r.f.m)
          /\ processed' = r.f.processed
          /\ frame' = r.f.buf
          /\ written' = r.f.cnt
          /\ hist' = note_call(r.f.h, r.f.m)
          /\ phase' = IF r.res = "Panic" THEN "panicked" ELSE phase
          /\ last' = Call("next_frame", r.res, r.err, r.errn, r.f.rows, r.f.m, eof, n)
  /\ UNCHANGED << transform, data_len, bpp, rowlen >>
  /\ UNCHANGED dvars

Next == ReadInfo \/ NextRow \/ NextFrame

Spec == Init /\ [][Next]_vars

\* ------------------------------------------------- the chunk driver as a machine
\* Reader::new (lines 128-144) with an upstream source of up to MaxBytes bytes
DriverInit ==
  /\ pos = 0
  /\ end = 0
  /\ r_left \in 0..MaxBytes
  /\ pc = "idle"
  /\ d_ended = FALSE
  /\ step = NoStep
  /\ phase = "decoder"
  /\ transform = TRANSFORM_IDENTITY
  /\ stream = << >>
  /\ data_len = 0
  /\ d_info = None
  /\ eof = FALSE
  /\ bpp = 0
  /\ rowlen = 0
  /\ adam7 = None
  /\ prev = << >>
  /\ current = << >>
  /\ processed = << >>
  /\ frame = << >>
  /\ written = << >>
  /\ hist = NoRows
  /\ last = Call("new", "Ok", "", -1, << >>, NoCall, FALSE, 0)

Cursors == [pos |-> pos, end |-> end, r_left |-> r_left, pc |-> pc, d_ended |-> d_ended,
            ret |-> "none"]

SetCursors(c) ==
  /\ pos' = c.pos
  /\ end' = c.end
  /\ r_left' = c.r_left
  /\ pc' = c.pc
  /\ d_ended' = c.d_ended

\* a call of decode_next (lines 449-452, 475-480); the Reader asks for no event
\* after the one that ended the image data
DecodeNextCall ==
  /\ pc = "idle"
  /\ ~d_ended
  /\ pc' = "loop"
  /\ step' = NoStep
  /\ UNCHANGED << pos, end, r_left, d_ended >>
  /\ UNCHANGED rvars

\* one turn of the loop of decode_next, lines 488-505
DecodeNextLoop ==
  /\ pc = "loop"
  /\ \E rd \in (IF pos = end THEN read(r_left) ELSE {[ok |-> TRUE, n |-> 0]}) :
       IF ~rd.ok
       THEN /\ pc' = "idle"
            /\ step' = [step EXCEPT !.read = None, !.updated = FALSE, !.ret = "Err"]
            /\ UNCHANGED << pos, end, r_left, d_ended >>
       ELSE \E c \in {refill(Cursors, rd)} :
            \E u \in update(c.end - c.pos) :
            \E c2 \in {matched(c, u)} :
               /\ SetCursors(c2)
               /\ step' = [read |-> IF pos = end THEN Some(rd.n) ELSE None,
                           zero |-> step.zero \/ (pos = end /\ rd.n = 0),
                           updated |-> u.ev # "Err", pos0 |-> c.pos, n |-> u.n,
                           ev |-> u.ev, ret |-> c2.ret]
  /\ UNCHANGED rvars

DriverNext == DecodeNextCall \/ DecodeNextLoop

DriverSpec == DriverInit /\ [][DriverNext]_vars

\* ------------------------------------------------------------------ claims
\* the header the parser holds, the output shape, and the width of a yielded row
TheInfo == Unwrap(d_info)
OutColor == output_color_type(TheInfo, transform)[1]
OutBits == output_color_type(TheInfo, transform)[2]
RowWidth(y) == IF IsSome(y.passdata) THEN Unwrap(y.passdata)[3] ELSE TheInfo.width
InvalidFilter == "Format: invalid filter method"
Truncated == "Format: file truncated"
TooSmall == "Other: supplied buffer is too small to hold the image"

\* C1: every row that next_interlaced_row or next_row returns, under any header and
\* transformation set, is output_line_size(w) bytes long, where w is the pass width of
\* the row for an interlaced image and the image width otherwise
C1_RowLength ==
  (last.op = "next_row" /\ last.res = "Row") =>
     Len(last.rows[1].row) = output_line_size(TheInfo, transform, RowWidth(last.rows[1]))

\* a 16-bit row of an interlaced pass narrower than the image, reduced to 8 bits
C1_Witness ==
  /\ last.op = "next_row" /\ last.res = "Row"
  /\ TheInfo.interlaced /\ TheInfo.bit_depth = 16 /\ "STRIP_16" \in transform
  /\ RowWidth(last.rows[1]) < TheInfo.width
  /\ Len(last.rows[1].row) > 0

\* the inflated data is exactly `height` filtered rows of a non-interlaced image
ExactRows ==
  /\ phase = "reader"
  /\ ~TheInfo.interlaced
  /\ data_len = TheInfo.height * raw_row_length(TheInfo)

\* C2: on a non-interlaced image whose inflated data is exactly height filtered rows,
\* the calls up to the one that returns None yield exactly height rows, and their
\* lengths add up to output_buffer_size()
C2_AllRows ==
  ExactRows =>
     /\ hist.nrows <= TheInfo.height
     /\ (last.op = "next_row" /\ last.res = "None") =>
           /\ hist.nrows = TheInfo.height
           /\ hist.nbytes = output_buffer_size(TheInfo, transform)

\* None after the rows of an image that is not square, under a transformation
C2_Witness ==
  /\ ExactRows
  /\ last.op = "next_row" /\ last.res = "None"
  /\ TheInfo.height > TheInfo.width
  /\ transform # TRANSFORM_IDENTITY
  /\ hist.nrows = TheInfo.height

\* C3: a returned row of pixel width w is ceil(w * samples * bits / 8) bytes long,
\* (color type, bits) being what output_color_type() reports and samples the number
\* of samples of that color type
C3_ShapeAgrees ==
  \A i \in 1..Len(last.rows) :
     Len(last.rows[i].row) = CeilDiv(RowWidth(last.rows[i]) * samples(OutColor) * OutBits, 8)

\* the bytes of a pixel of the output
OutBytes == (samples(OutColor) * OutBits) \div 8

\* the call started on a fresh Reader and was yielded every row of the image
WholeFrame ==
  /\ last.op = "next_frame" /\ last.res = "Ok"
  /\ TheInfo.interlaced
  /\ Len(last.rows) = Len(RowWidths(TheInfo))

\* pixel j of the yielded row y is in frame at row y_start + line * y_stride and
\* column x_start + j * x_stride of the image, OutBytes wide
Placed(y) ==
  LET pass == Unwrap(y.passdata)[1]
      line == Unwrap(y.passdata)[2]
  IN \A j \in 0..(RowWidth(y) - 1), o \in 0..(OutBytes - 1) :
        LET at == (y_start(pass) + line * y_stride(pass)) * (TheInfo.width * OutBytes)
                    + (x_start(pass) + j * x_stride(pass)) * OutBytes + o
        IN at < Len(frame) /\ frame[at + 1] = y.row[j * OutBytes + o + 1]

\* C4: after next_frame returns Ok on an interlaced image, of any output color type
\* and bit depth, every byte of the image in the buffer has been written exactly
\* once, and every pixel of every pass row stands at its Adam7 position, as many
\* bytes wide as a pixel of the output
C4_EveryPixelOnce ==
  (WholeFrame /\ OutBits >= 8) =>
     /\ \A k \in 1..output_buffer_size(TheInfo, transform) : written[k] = 1
     /\ \A i \in 1..Len(last.rows) : Placed(last.rows[i])

C6_BufferTooSmall ==
  (last.op = "next_frame" /\ last.buflen < output_buffer_size(TheInfo, transform)) =>
     /\ last.res = "Err" /\ last.err = TooSmall
     /\ last.pulled = 0
     /\ last.rows = << >>
     /\ Len(frame) = last.buflen
     /\ \A k \in 1..Len(frame) : frame[k] = -1 /\ written[k] = 0

\* the call on a buffer one byte short, with image data still to come
C6_Witness ==
  /\ last.op = "next_frame" /\ last.res = "Err" /\ last.err = TooSmall
  /\ last.buflen + 1 = output_buffer_size(TheInfo, transform)
  /\ last.buflen > 0
  /\ Head(stream).tag = "ImageData"

\* C7: when the parser reports the end of the image data while current holds bytes,
\* the call returns Format("file truncated"); when current is empty, it returns None
\* and sets eof; once eof is set a call returns None and pulls no event
C7_EndOfData ==
  last.op = "next_row" =>
     /\ (last.ended /\ current # << >>) => (last.res = "Err" /\ last.err = Truncated /\ ~eof)
     /\ (last.ended /\ current = << >>) => (last.res = "None" /\ eof)
     /\ last.eof_before => (last.res = "None" /\ last.pulled = 0 /\ eof)

\* the data ended inside the second row or a later one
C7_Witness ==
  /\ last.op = "next_row" /\ last.ended
  /\ current # << >>
  /\ last.res = "Err" /\ last.err = Truncated
  /\ hist.nrows >= 1

\* C8: when a full filtered row is buffered and its first byte N is no filter type,
\* the call returns Format("invalid filter method (N)") and yields no row
C8_InvalidFilter ==
  last.op = "next_row" =>
     /\ last.res = "Row" => prev[1] \in 0..4
     /\ (last.res \in {"Err", "None"} /\ last.rl > 0 /\ Len(current) >= last.rl) =>
           /\ last.res = "Err" /\ last.err = InvalidFilter
           /\ last.errn = current[1] /\ last.errn \notin 0..4
           /\ last.rows = << >>

\* the row after a row with a valid filter type starts with byte 5
C8_Witness ==
  /\ last.op = "next_row" /\ last.res = "Err" /\ last.err = InvalidFilter
  /\ last.errn = 5
  /\ Len(current) >= last.rl
  /\ hist.nrows >= 1

\* C9: read_info on a stream that reaches the IDAT chunk with no header parsed
\* returns Format("IHDR chunk missing"), and does not panic
C9_IhdrMissing ==
  (last.op = "read_info" /\ ~last.ended /\ ~IsSome(d_info)) =>
     (last.res = "Err" /\ last.err = "Format: IHDR chunk missing")

\* C10: read_info on a stream that ends before a ChunkBegin(IDAT) returns
\* Format("IDAT chunk missing"), and no row buffer has been allocated
C10_IdatMissing ==
  (last.op = "read_info" /\ last.ended) =>
     /\ last.res = "Err" /\ last.err = "Format: IDAT chunk missing"
     /\ phase = "failed"
     /\ prev = << >> /\ current = << >> /\ processed = << >>

\* the stream ended after the header, with no IDAT chunk
C10_Witness ==
  /\ last.op = "read_info" /\ last.ended
  /\ IsSome(d_info)
  /\ last.res = "Err"

\* the transformation sets that ask for the 16-bit reduction and agree with t on EXPAND
Reductions == TRANSFORM_STRIP_16 \cup TRANSFORM_SCALE_16
Twins(t) == { u \in Transformations : intersects(u, Reductions) /\ u \ Reductions = t \ Reductions }

\* what a Reader under transformation set t makes of the next call in this state
RowUnder(t) == next_interlaced_row(Machine, processed, t, bpp, rowlen)

\* C11: decoders whose transformation sets differ only in which of STRIP_16 and
\* SCALE_16 is set report the same output_color_type() and output_line_size(w),
\* return byte-identical rows and are left in the same state; on a 16-bit image
\* byte i of a row is byte 2i of the row the decoder without the reduction returns
C11_StripScale ==
  (phase = "reader" /\ intersects(transform, Reductions)) =>
     /\ \A u \in Twins(transform) :
           /\ output_color_type(TheInfo, u) = output_color_type(TheInfo, transform)
           /\ \A w \in 1..TheInfo.width :
                 output_line_size(TheInfo, u, w) = output_line_size(TheInfo, transform, w)
           /\ allocate_out_buf(d_info, u) = allocate_out_buf(d_info, transform)
           /\ RowUnder(u) = RowUnder(transform)
     /\ (TheInfo.bit_depth = 16 /\ RowUnder(transform).r.res = "Row") =>
           LET full == RowUnder(transform \ Reductions).r.row
               half == RowUnder(transform).r.row
           IN /\ 2 * Len(half) = Len(full)
              /\ \A i \in 0..(Len(half) - 1) : half[i + 1] = full[2 * i + 1]

\* a 16-bit row with a byte that is not 0 is about to be reduced under STRIP_16 alone
C11_Witness ==
  /\ phase = "reader" /\ transform = TRANSFORM_STRIP_16
  /\ TheInfo.bit_depth = 16
  /\ RowUnder(transform).r.res = "Row"
  /\ \E i \in 1..Len(RowUnder(transform).r.row) : RowUnder(transform).r.row[i] # 0

\* C13: when the assembly of a row starts, prev is as long as the filtered row,
\* rowlen: the row length of the image when it is not interlaced, the row length of
\* the pass when it is, pass 1 included
C13_PrevLength ==
  (last.op = "next_row" /\ last.rl > 0) => Len(prev) = last.rl

\* the row the last call yielded is the first of the image or of its pass
FirstOfPass == hist.nrows = 1 \/ (IsSome(hist.cur_pd) /\ Unwrap(hist.cur_pd)[2] = 0)

\* C14: the previous row handed to filter reversal is all zeros for the first row
\* of the image and of every Adam7 pass, and for every other row it is the
\* reconstructed bytes of the row yielded just before it, a row of the same pass
C14_PreviousRow ==
  hist.nrows >= 1 =>
     /\ Len(hist.prev_in) = Len(hist.raw)
     /\ IF FirstOfPass
        THEN hist.prev_in = Zeros(Len(hist.raw))
        ELSE /\ hist.prev_in = hist.raw_before
             /\ hist.prev_pd # None => Unwrap(hist.prev_pd)[1] = Unwrap(hist.cur_pd)[1]

\* the first row of a later pass came after a row with bytes other than 0
C14_Witness ==
  /\ last.op = "next_row" /\ last.res = "Row"
  /\ IsSome(hist.cur_pd) /\ Unwrap(hist.cur_pd)[1] > 1 /\ Unwrap(hist.cur_pd)[2] = 0
  /\ hist.raw_before # Zeros(Len(hist.raw_before))
  /\ hist.raw # Zeros(Len(hist.raw))

\* a later row of a pass or of a non-interlaced image, after a row other than 0
C14_WitnessNext ==
  /\ last.op = "next_row" /\ last.res = "Row"
  /\ ~FirstOfPass
  /\ hist.raw_before # Zeros(Len(hist.raw_before))

\* C15: row assembly loses, repeats and reorders no byte of image data; the
\* filtered rows taken so far, each with its filter byte, followed by current are
\* the ImageData payloads received so far, one after another
C15_NoByteLost ==
  phase \in {"reader", "panicked"} => hist.taken \o current = hist.received

\* rows have been taken, bytes of the next row are buffered, and the call was
\* given more than one fragment
C15_Witness ==
  /\ phase = "reader"
  /\ hist.nrows >= 2
  /\ current # << >>
  /\ last.pulled >= 2
  /\ Len(hist.taken) > Len(current)

\* C16: the row driver asks the parser for an event only while current is shorter
\* than the row being assembled; a call that finds a full row buffered makes what
\* it makes of that row without a call of decode_next
C16_NoLookAhead ==
  last.op = "next_row" =>
     /\ last.pulled > 0 => last.maxcur < last.rl
     /\ (last.rl > 0 /\ last.cur0 >= last.rl) =>
           /\ last.pulled = 0
           /\ last.res \in {"Row", "Panic"} \/ (last.res = "Err" /\ last.err = InvalidFilter)

\* a row that an earlier fragment brought is returned with no event asked for
C16_Witness ==
  /\ last.op = "next_row" /\ last.res = "Row"
  /\ last.rl > 0 /\ last.cur0 >= last.rl
  /\ last.pulled = 0
  /\ hist.nrows >= 2

\* C18: under a transformation set other than IDENTITY, when a call of
\* next_interlaced_row returns, with a row, None or an error, the scratch buffer
\* processed is line_size(width of the image) bytes long
C18_ScratchLength ==
  (phase = "reader" /\ transform # TRANSFORM_IDENTITY /\ last.op = "next_row") =>
     Len(processed) = line_size(TheInfo, transform, TheInfo.width)

\* C19: whatever the image data, the rows yielded are never more than the rows of
\* the image: height rows when it is not interlaced, the sum of the heights of the
\* passes when it is
C19_RowCount ==
  phase \in {"reader", "panicked"} /\ IsSome(d_info) =>
     hist.nrows <= Len(RowWidths(TheInfo))

\* the palette index of pixel j of a packed row: the pixels of a byte run from its
\* most significant bits to its least significant
PixelIndex(raw, j, depth) ==
  LET per == 8 \div depth
      byte == raw[(j \div per) + 1]
  IN (byte \div Pow2(depth * (per - 1 - (j % per)))) % Pow2(depth)

\* an Indexed row came out of EXPAND
ExpandedIndexed ==
  /\ phase = "reader" /\ last.op = "next_row" /\ last.res = "Row"
  /\ TheInfo.color_type = "Indexed"
  /\ contains(transform, TRANSFORM_EXPAND)

\* C17: under EXPAND every pixel of an Indexed row, index i, comes out as the bytes
\* palette[3i], palette[3i+1], palette[3i+2], followed, when the image has a tRNS
\* chunk, by trns[i], or by 255 when i is not less than the length of trns; the
\* pixels come out in the order they are packed, most significant bits first
C17_Palette ==
  ExpandedIndexed =>
     LET out == last.rows[1].row
         w == RowWidth(last.rows[1])
         palette == Unwrap(TheInfo.palette)
         ch == IF IsSome(TheInfo.trns) THEN 4 ELSE 3
     IN /\ Len(out) = ch * w
        /\ \A j \in 0..(w - 1) :
              LET i == PixelIndex(hist.raw, j, TheInfo.bit_depth)
              IN /\ out[ch * j + 1] = palette[3 * i + 1]
                 /\ out[ch * j + 2] = palette[3 * i + 2]
                 /\ out[ch * j + 3] = palette[3 * i + 3]
                 /\ IsSome(TheInfo.trns) =>
                       out[ch * j + 4] = IF i < Len(Unwrap(TheInfo.trns))
                                         THEN Unwrap(TheInfo.trns)[i + 1]
                                         ELSE 255

\* a row of more than one pixel to the byte, with an index that has an entry of
\* trns other than the first and an index that has none
C17_Witness ==
  /\ ExpandedIndexed
  /\ IsSome(TheInfo.trns)
  /\ TheInfo.bit_depth < 8
  /\ LET w == RowWidth(last.rows[1])
         n == Len(Unwrap(TheInfo.trns))
     IN /\ w >= 2
        /\ \E j \in 0..(w - 1) : PixelIndex(hist.raw, j, TheInfo.bit_depth) >= n
        /\ \E j \in 0..(w - 1) : PixelIndex(hist.raw, j, TheInfo.bit_depth) \in 1..(n - 1)

\* C12: when pos = end and the upstream reader gives 0 bytes, decode_next takes the
\* source to have ended and returns; once a refill of a call has given 0 bytes the
\* call is not at the head of its loop again, to read and to parse an empty slice
C12_ZeroRefill == ~(pc = "loop" /\ step.zero)

\* C20: between the turns of decode_next 0 <= pos <= end <= buf.len(), and each
\* answer of update moves pos on by the count of bytes update said it consumed
C20_Cursors ==
  /\ 0 <= pos /\ pos <= end /\ end <= CHUNCK_BUFFER_SIZE
  /\ step.updated => pos = step.pos0 + step.n

====
